---- MODULE Spec2Model ----
(***************************************************************************)
(* A model of whitelint.py, the whitespace linter of the PortAudio tree.   *)
(*                                                                         *)
(* Bytes are the integers 0..255 and a bytes object is a sequence of them. *)
(* Python indices are 0-based and so are the indices of Find, RFind and of *)
(* the scan index of multilineCommentIsOpenAtEol; TLA+ sequences are       *)
(* 1-based, so byte i of the code is s[i + 1] here.                        *)
(*                                                                         *)
(* The specifications share the definitions:                               *)
(*   Spec         the whole run: every file read, normalized, analysed,    *)
(*                then the summary (lines 102-241);                        *)
(*   SpecFile     the analysis of the first file, one check a step;        *)
(*   SpecComment  multilineCommentIsOpenAtEol, one loop iteration a step,  *)
(*                and SpecCommentFair, the same with the loop scheduled;   *)
(*   SpecIndent   the bad-indenting loop, one line a step.                 *)
(***************************************************************************)
EXTENDS Integers, Sequences, FiniteSets

VARIABLES
    pc,             \* position of the program
    nFiles,         \* number of paths the rglob loops have yielded so far
    raw,            \* the bytes of the current file, as read
    data,           \* the variable data
    dDefined,       \* whether the module-level name d is bound
    d,              \* the module-level variable d (meaningless while unbound)
    statusSummary,  \* the list statusSummary: one FileStatus per file read
    lines,          \* the variable lines
    exitStatus,     \* exit status of the process, -1 while it runs
    lineText,       \* multilineCommentIsOpenAtEol: parameter lineText
    wasOpenAtStartOfLine, \* multilineCommentIsOpenAtEol: parameter
    isOpen,         \* multilineCommentIsOpenAtEol: local isOpen
    index,          \* multilineCommentIsOpenAtEol: local index
    iterations,     \* multilineCommentIsOpenAtEol: loop bodies executed so far
    line,           \* indent loop: the loop variable line
    commentIsOpen,  \* indent loop: commentIsOpen
    previousLine,   \* indent loop: previousLine
    previousIndent, \* indent loop: previousIndent
    lineNo,         \* indent loop: lineNo
    badIndenting,   \* indent loop: issueCounts["has-bad-indenting"]
    printedBadIndent \* indent loop: the line's "bad indent" error was printed

runVars == <<nFiles, raw, data, dDefined, d, statusSummary, lines, exitStatus>>
scanVars == <<lineText, wasOpenAtStartOfLine, isOpen, index, iterations>>
indentVars ==
    <<line, commentIsOpen, previousLine, previousIndent, lineNo, badIndenting,
      printedBadIndent>>
vars == <<pc, runVars, scanVars, indentVars>>

(***************************************************************************)
(* Bytes the code names.                                                   *)
(***************************************************************************)
TAB == 9
LF == 10
VT == 11
FF == 12
CR == 13
SP == 32
STAR == 42
SLASH == 47
LowestPrintable == 32
HighestPrintable == 126

\* re's \s on a bytes pattern: [ \t\n\r\f\v]
Whitespace == {SP, TAB, LF, CR, FF, VT}

\* okCharsFollowing without the comma and the slash
okCharsFollowingIncomplete == {40, 92, 43, 45, 42, 61, 38, 124, 63, 58, 34}

\* okChars of allowStrangeIndentOnFollowingLine: ( , \ + - / * = & | ? : "
okCharsFollowing == {40, 44, 92, 43, 45, 47, 42, 61, 38, 124, 63, 58, 34}

\* okChars of allowStrangeIndentOfLine: + - / * = & | ? : ) "
okCharsOfLine == {43, 45, 47, 42, 61, 38, 124, 63, 58, 41, 34}

issueNames ==
    {"has-inconsistent-line-endings", "has-tabs", "has-bad-indenting",
     "has-trailing-whitespace", "has-bad-character", "has-no-eol-at-eof"}

(***************************************************************************)
(* bytes methods, as CPython computes them.                                *)
(***************************************************************************)
\* b in s, for a single byte b
Contains(s, b) == \E i \in 1..Len(s) : s[i] = b

\* sub occurs in s at 0-based index i
MatchAt(s, sub, i) ==
    /\ i >= 0
    /\ i + Len(sub) <= Len(s)
    /\ \A k \in 1..Len(sub) : s[i + k] = sub[k]

\* s.find(sub, start): the lowest index >= start where sub occurs, else -1
Find(s, sub, start) ==
    LET hits == {i \in start..(Len(s) - Len(sub)) : MatchAt(s, sub, i)}
    IN  IF hits = {} THEN -1 ELSE CHOOSE i \in hits : \A j \in hits : i <= j

\* s.rfind(sub): the highest index where sub occurs, else -1
RFind(s, sub) ==
    LET hits == {i \in 0..(Len(s) - Len(sub)) : MatchAt(s, sub, i)}
    IN  IF hits = {} THEN -1 ELSE CHOOSE i \in hits : \A j \in hits : i >= j

RECURSIVE ReplaceFrom(_, _, _, _)
ReplaceFrom(s, old, new, i) ==
    IF i >= Len(s) THEN <<>>
    ELSE IF MatchAt(s, old, i)
         THEN new \o ReplaceFrom(s, old, new, i + Len(old))
         ELSE <<s[i + 1]>> \o ReplaceFrom(s, old, new, i + 1)

\* s.replace(old, new): every non-overlapping occurrence, left to right
Replace(s, old, new) == ReplaceFrom(s, old, new, 0)

RECURSIVE SplitFrom(_, _, _)
SplitFrom(s, i, cur) ==
    IF i > Len(s) THEN <<cur>>
    ELSE IF s[i] = LF
         THEN <<cur>> \o SplitFrom(s, i + 1, <<>>)
         ELSE SplitFrom(s, i + 1, Append(cur, s[i]))

\* s.split(b"\n")
Split(s) == SplitFrom(s, 1, <<>>)

\* s.strip(b" ")
Strip(s) ==
    LET keep == {i \in 1..Len(s) : s[i] # SP}
    IN  IF keep = {} THEN <<>>
        ELSE LET lo == CHOOSE i \in keep : \A j \in keep : i <= j
                 hi == CHOOSE i \in keep : \A j \in keep : i >= j
             IN  SubSeq(s, lo, hi)

\* leadingWhitespaceRe = b"^\s*": m.end() - m.start()
LeadingWhitespace(s) ==
    LET ns == {i \in 1..Len(s) : s[i] \notin Whitespace}
    IN  IF ns = {} THEN Len(s)
        ELSE (CHOOSE i \in ns : \A j \in ns : i <= j) - 1

\* trailingWhitespaceRe = b"\s*$": m.end() - m.start() of the leftmost match
TrailingWhitespace(s) ==
    LET ns == {i \in 1..Len(s) : s[i] \notin Whitespace}
    IN  IF ns = {} THEN Len(s)
        ELSE Len(s) - (CHOOSE i \in ns : \A j \in ns : i >= j)

\* badCharactersRe = b"[^\t\r\n\x20-\x7E]+" finds a match in s
HasBadCharacter(s) ==
    \E i \in 1..Len(s) :
        /\ s[i] \notin {TAB, CR, LF}
        /\ ~(LowestPrintable <= s[i] /\ s[i] <= HighestPrintable)

(***************************************************************************)
(* class FileStatus                                                        *)
(***************************************************************************)
FileStatus(path) == [path |-> path, issueCounts |-> [n \in issueNames |-> 0]]

incrementIssueCount(status, issueName) ==
    [status EXCEPT !.issueCounts[issueName] = @ + 1]

\* incrementIssueCount(issueName) called n times
RECURSIVE IncrementBy(_, _, _)
IncrementBy(status, issueName, n) ==
    IF n = 0 THEN status
    ELSE IncrementBy(incrementIssueCount(status, issueName), issueName, n - 1)

\* hasIssues with all() in place of the any() of the loop
hasIssuesInEveryCheck(status) == \A n \in issueNames : status.issueCounts[n] > 0

hasIssues(status) == \E n \in issueNames : status.issueCounts[n] > 0

(***************************************************************************)
(* multilineCommentIsOpenAtEol                                             *)
(***************************************************************************)
\* the while condition
ScanContinues(text, idx) == idx # -1 /\ idx < Len(text)

\* SoughtDelimiter looking for "/*" in either state
SoughtDelimiterAlwaysOpen(open) == <<SLASH, STAR>>

\* the delimiter the loop body looks for: "*/" in a comment, "/*" outside
SoughtDelimiter(open) == IF open THEN <<STAR, SLASH>> ELSE <<SLASH, STAR>>

\* ScanStep advancing by one byte past the start of the delimiter found
ScanStepSharingByte(text, open, idx) ==
    LET found == Find(text, SoughtDelimiter(open), idx)
    IN  IF found # -1
        THEN [isOpen |-> ~open, index |-> found + 1]
        ELSE [isOpen |-> open, index |-> -1]

\* ScanStep without the "index += 2"
ScanStepNoAdvance(text, open, idx) ==
    LET found == Find(text, SoughtDelimiter(open), idx)
    IN  IF found # -1
        THEN [isOpen |-> ~open, index |-> found]
        ELSE [isOpen |-> open, index |-> -1]

\* one execution of the loop body
ScanStep(text, open, idx) ==
    LET found == Find(text, SoughtDelimiter(open), idx)
    IN  IF found # -1
        THEN [isOpen |-> ~open, index |-> found + 2]
        ELSE [isOpen |-> open, index |-> -1]

RECURSIVE ScanLoop(_, _, _)
ScanLoop(text, open, idx) ==
    IF ScanContinues(text, idx)
    THEN LET n == ScanStep(text, open, idx) IN ScanLoop(text, n.isOpen, n.index)
    ELSE open

multilineCommentIsOpenAtEol(text, wasOpen) == ScanLoop(text, wasOpen, 0)

(***************************************************************************)
(* The indent heuristics                                                   *)
(***************************************************************************)
\* StripTrailingComment repeated while a trailing comment is left
RECURSIVE StripEveryTrailingComment(_)
StripEveryTrailingComment(s) ==
    IF RFind(s, <<STAR, SLASH>>) = Len(s) - 2 /\ RFind(s, <<SLASH, STAR>>) # -1
    THEN StripEveryTrailingComment(Strip(SubSeq(s, 1, RFind(s, <<SLASH, STAR>>))))
    ELSE s

\* s after the "line has a trailing comment, strip it" block
StripTrailingComment(s) ==
    IF RFind(s, <<STAR, SLASH>>) = Len(s) - 2
    THEN LET commentStart == RFind(s, <<SLASH, STAR>>)
         IN  IF commentStart # -1 THEN Strip(SubSeq(s, 1, commentStart)) ELSE s
    ELSE s

allowStrangeIndentOnFollowingLine(text) ==
    LET s == Strip(text)
    IN  IF Len(s) = 0 THEN FALSE
        ELSE LET t == StripTrailingComment(s)
             IN  IF Len(t) = 0 THEN FALSE ELSE t[Len(t)] \in okCharsFollowing

allowStrangeIndentOfLine(text) ==
    LET s == Strip(text)
    IN  IF Len(s) = 0 THEN FALSE ELSE s[1] \in okCharsOfLine

(***************************************************************************)
(* One iteration of the bad-indenting loop (lines 169-190)                 *)
(***************************************************************************)
\* PotentialBadIndent without the comparison with the previous line
PotentialBadIndentNotMultiple(indent, prevIndent) == indent % 4 # 0

\* "potential bad indents are not multiples of 4, and are not indented the
\* same as the previous line" (CPython: "is not 0" on a small int is "!= 0")
PotentialBadIndent(indent, prevIndent) == indent % 4 # 0 /\ indent # prevIndent

\* IndentRaises without the test that skips whitespace-only lines
IndentRaisesOnBlankLines(open, prevLine, prevIndent, text) ==
    /\ ~open
    /\ PotentialBadIndent(LeadingWhitespace(text), prevIndent)
    /\ ~allowStrangeIndentOnFollowingLine(prevLine)
    /\ ~allowStrangeIndentOfLine(text)

\* whether the iteration increments has-bad-indenting
IndentRaises(open, prevLine, prevIndent, text) ==
    /\ ~open
    /\ LeadingWhitespace(text) # Len(text)
    /\ PotentialBadIndent(LeadingWhitespace(text), prevIndent)
    /\ ~allowStrangeIndentOnFollowingLine(prevLine)
    /\ ~allowStrangeIndentOfLine(text)

\* IndentAfter without the "previousIndent = 0" of a line inside a comment
IndentAfterIgnoringComment(open, text) == LeadingWhitespace(text)

\* IndentAfter resetting the baseline on whitespace-only lines too
IndentAfterBlankResets(open, text) ==
    IF open \/ LeadingWhitespace(text) = Len(text) THEN 0 ELSE LeadingWhitespace(text)

\* previousIndent after the iteration
IndentAfter(open, text) == IF open THEN 0 ELSE LeadingWhitespace(text)

\* has-bad-indenting increments of the loop over ls[i..]
RECURSIVE BadIndentFrom(_, _, _, _, _)
BadIndentFrom(ls, i, open, prevLine, prevIndent) ==
    IF i > Len(ls) THEN 0
    ELSE (IF IndentRaises(open, prevLine, prevIndent, ls[i]) THEN 1 ELSE 0)
         + BadIndentFrom(ls, i + 1, multilineCommentIsOpenAtEol(ls[i], open),
                         ls[i], IndentAfter(open, ls[i]))

BadIndentCount(ls) == BadIndentFrom(ls, 1, FALSE, <<>>, 0)

(***************************************************************************)
(* The per-line checks 2, 4, 5 and the end-of-file check 6                 *)
(***************************************************************************)
\* TabLineCount incrementing once per tab
RECURSIVE TabLineCountPerTab(_)
TabLineCountPerTab(ls) ==
    IF ls = <<>> THEN 0
    ELSE Cardinality({k \in 1..Len(Head(ls)) : Head(ls)[k] = TAB})
             + TabLineCountPerTab(Tail(ls))

TabLineCount(ls) == Cardinality({i \in 1..Len(ls) : Contains(ls[i], TAB)})

ExpandTabs(buf) == Replace(buf, <<TAB>>, <<SP, SP, SP, SP>>)

\* TrailingWhitespaceCount with the pattern b"[ \t]*$"
TrailingWhitespaceCountBlanksOnly(ls) ==
    Cardinality({i \in 1..Len(ls) :
                    ls[i] # <<>> /\ ls[i][Len(ls[i])] \in {SP, TAB}})

TrailingWhitespaceCount(ls) ==
    Cardinality({i \in 1..Len(ls) : TrailingWhitespace(ls[i]) > 0})

\* the maximal runs of bad characters in s (findall in place of search)
BadCharacterRuns(s) ==
    Cardinality({i \in 1..Len(s) :
        /\ HasBadCharacter(<<s[i]>>)
        /\ (i = 1 \/ ~HasBadCharacter(<<s[i - 1]>>))})

\* BadCharacterCount incrementing once per run of bad characters
RECURSIVE BadCharacterCountPerRun(_)
BadCharacterCountPerRun(ls) ==
    IF ls = <<>> THEN 0
    ELSE BadCharacterRuns(Head(ls)) + BadCharacterCountPerRun(Tail(ls))

BadCharacterCount(ls) == Cardinality({i \in 1..Len(ls) : HasBadCharacter(ls[i])})

\* NoEolAtEof comparing the last byte, an int, with the bytes object b"\n"
NoEolAtEofIntAgainstBytes(buf) == IF Len(buf) > 0 THEN 1 ELSE 0

NoEolAtEof(buf) == IF Len(buf) > 0 /\ buf[Len(buf)] # LF THEN 1 ELSE 0

\* status after lines 148-226, given the normalized data
AnalyseNormalized(status, buf) ==
    LET expanded == ExpandTabs(buf)
        ls == Split(expanded)
        s2 == IncrementBy(status, "has-tabs", TabLineCount(Split(buf)))
        s3 == IncrementBy(s2, "has-bad-indenting", BadIndentCount(ls))
        s4 == IncrementBy(s3, "has-trailing-whitespace", TrailingWhitespaceCount(ls))
        s5 == IncrementBy(s4, "has-bad-character", BadCharacterCount(ls))
    IN  IncrementBy(s5, "has-no-eol-at-eof", NoEolAtEof(expanded))

(***************************************************************************)
(* Line-ending normalization (lines 128-146)                               *)
(***************************************************************************)
\* SentinelAbsent with the assertion compiled away
SentinelAbsentUnchecked(buf) == TRUE

\* the assertion of line 130
SentinelAbsent(buf) == ~Contains(buf, FF)

\* d = data.replace(b"\r\n", b"\f")
SubstituteSentinel(buf) == Replace(buf, <<CR, LF>>, <<FF>>)

\* StrayCount incrementing once per stray byte
StrayCountPerOccurrence(dd) ==
    Cardinality({i \in 1..Len(dd) : dd[i] = CR})
        + Cardinality({i \in 1..Len(dd) : dd[i] = LF})

\* has-inconsistent-line-endings increments of the CRLF case, from d
StrayCount(dd) ==
    (IF Contains(dd, CR) THEN 1 ELSE 0) + (IF Contains(dd, LF) THEN 1 ELSE 0)

\* data = d.replace(b"\f", b"\n")
RestoreSentinel(dd) == Replace(dd, <<FF>>, <<LF>>)

\* data = d.replace(b"\r", b"\n") of the CR case
ConvertCR(dd) == Replace(dd, <<CR>>, <<LF>>)

(***************************************************************************)
(* Bounds and input sets                                                   *)
(***************************************************************************)
MaxFiles == 2       \* files the directory walk yields
MaxDataLen == 3     \* bytes in a file
MaxScanLen == 5     \* bytes in a line given to multilineCommentIsOpenAtEol
MaxLines == 3       \* lines the indent loop walks
MaxIndent == 1      \* leading spaces of a generated line
MaxBody == 3        \* bytes after the leading spaces of a generated line
MaxTextLen == 4     \* bytes in the file of the one-file analysis

BytesUpTo(alphabet, n) == UNION {[1..k -> alphabet] : k \in 0..n}

\* file contents of the whole run: every combination of the three bytes the
\* normalization looks for, and files with ordinary text (120 is "x", 59 is
\* ";", 1 is a control byte): "x\r\nx\n",
\* "x\rx\r", "\tx\n", "x \n", "\x01\n", "x;", "x\r\n\f\n", "  x\n"
RunBytes == {CR, LF, FF}
ExampleContents ==
    {<<120, CR, LF, 120, LF>>,
     <<120, CR, 120, CR>>,
     <<TAB, 120, LF>>,
     <<120, SP, LF>>,
     <<1, LF>>,
     <<120, 59>>,
     <<120, CR, LF, FF, LF>>,
     <<SP, SP, 120, LF>>}
Contents == BytesUpTo(RunBytes, MaxDataLen) \cup ExampleContents

\* file contents of the one-file analysis: the bytes the checks tell apart
\* (126 is "~", the highest byte that is no bad character, 127 the lowest one
\* above it), and "\x01x\x1f\n\x80\xff\n\n", "\t\tx\t\nx\n\t"
FileBytes == {TAB, LF, VT, FF, CR, SP, 126, 127}
ExampleFiles ==
    {<<1, 120, 31, LF, 128, 255, LF, LF>>,
     <<TAB, TAB, 120, TAB, LF, 120, LF, TAB>>}
FileContents == BytesUpTo(FileBytes, MaxTextLen) \cup ExampleFiles

\* lines scanned for comment delimiters: "/", "*" and the letter "x", and
\* "/* a */ b /* c", "/* a */ b /* c */", "a */ b /* c */ /* d"
ScanBytes == {SLASH, STAR, 120}
ExampleScanLines ==
    {<<SLASH, STAR, SP, 97, SP, STAR, SLASH, SP, 98, SP, SLASH, STAR, SP, 99>>,
     <<SLASH, STAR, SP, 97, SP, STAR, SLASH, SP, 98, SP, SLASH, STAR, SP, 99,
       SP, STAR, SLASH>>,
     <<97, SP, STAR, SLASH, SP, 98, SP, SLASH, STAR, SP, 99, SP, STAR, SLASH,
       SP, SLASH, STAR, SP, 100>>}
ScanLines == BytesUpTo(ScanBytes, MaxScanLen) \cup ExampleScanLines

Spaces(n) == [i \in 1..n |-> SP]

\* "if (x)", "  return;", "foo(a,", "    y) {", "x, /*x*/", "x /*x*/",
\* lines with other whitespace: "\vx", "  ", "x*/ ", "     x", and lines
\* that end in two comments: "x /*a*/ /*b*/", "/**//**/", "x /*a*/ /*b /*c*/"
ExampleLines ==
    {<<105, 102, SP, 40, 120, 41>>,
     <<SP, SP, 114, 101, 116, 117, 114, 110, 59>>,
     <<102, 111, 111, 40, 97, 44>>,
     <<SP, SP, SP, SP, 121, 41, SP, 123>>,
     <<120, 44, SP, SLASH, STAR, 120, STAR, SLASH>>,
     <<120, SP, SLASH, STAR, 120, STAR, SLASH>>,
     <<VT, 120>>, <<SP, SP>>, <<120, STAR, SLASH, SP>>,
     <<SP, SP, SP, SP, SP, 120>>,
     <<120, SP, SLASH, STAR, 97, STAR, SLASH, SP, SLASH, STAR, 98, STAR, SLASH>>,
     <<SLASH, STAR, STAR, SLASH, SLASH, STAR, STAR, SLASH>>,
     <<120, SP, SLASH, STAR, 97, STAR, SLASH, SP, SLASH, STAR, 98, SP,
       SLASH, STAR, 99, STAR, SLASH>>}

\* lines of the indent loop: tab-expanded, so without TAB, and without LF
IndentLines ==
    {Spaces(n) \o b : n \in 0..MaxIndent, b \in BytesUpTo(ScanBytes, MaxBody)}
        \cup ExampleLines

(***************************************************************************)
(* The whole run (lines 102-241)                                           *)
(***************************************************************************)
status == statusSummary[Len(statusSummary)]

SetStatus(st) == [statusSummary EXCEPT ![Len(statusSummary)] = st]

RunIdleScan ==
    /\ lineText = <<>> /\ wasOpenAtStartOfLine = FALSE /\ isOpen = FALSE /\ index = 0
    /\ iterations = 0

RunIdleIndent ==
    /\ line = <<>> /\ commentIsOpen = FALSE /\ previousLine = <<>>
    /\ previousIndent = 0 /\ lineNo = 1 /\ badIndenting = 0 /\ printedBadIndent = FALSE

Init ==
    /\ pc = "next"
    /\ nFiles = 0
    /\ raw = <<>>
    /\ data = <<>>
    /\ dDefined = FALSE
    /\ d = <<>>
    /\ statusSummary = <<>>
    /\ lines = <<>>
    /\ exitStatus = -1
    /\ RunIdleScan
    /\ RunIdleIndent

\* lines 108-124: the next path; data = path.read_bytes(); status appended
ReadFile ==
    /\ pc = "next"
    /\ nFiles < MaxFiles
    /\ \E content \in Contents :
        /\ raw' = content
        /\ data' = content
    /\ nFiles' = nFiles + 1
    /\ statusSummary' = Append(statusSummary, FileStatus(nFiles + 1))
    /\ pc' = "normalize"
    /\ UNCHANGED <<dDefined, d, lines, exitStatus, scanVars, indentVars>>

\* lines 128-140, the assertion holding
NormalizeCRLF ==
    /\ pc = "normalize"
    /\ Contains(data, CR) /\ Contains(data, LF)
    /\ SentinelAbsent(data)
    /\ d' = SubstituteSentinel(data)
    /\ dDefined' = TRUE
    /\ statusSummary' =
        SetStatus(IncrementBy(status, "has-inconsistent-line-endings", StrayCount(d')))
    /\ data' = RestoreSentinel(d')
    /\ pc' = "lines"
    /\ UNCHANGED <<nFiles, raw, lines, exitStatus, scanVars, indentVars>>

\* lines 128-130, the assertion failing: the traceback ends the process
AssertionFails ==
    /\ pc = "normalize"
    /\ Contains(data, CR) /\ Contains(data, LF)
    /\ ~SentinelAbsent(data)
    /\ pc' = "AssertionError"
    /\ exitStatus' = 1
    /\ UNCHANGED <<nFiles, raw, data, dDefined, d, statusSummary, lines,
                   scanVars, indentVars>>

\* lines 141-143, d bound by an earlier file's CRLF case
NormalizeCR ==
    /\ pc = "normalize"
    /\ ~(Contains(data, CR) /\ Contains(data, LF))
    /\ Contains(data, CR)
    /\ dDefined
    /\ data' = ConvertCR(d)
    /\ pc' = "lines"
    /\ UNCHANGED <<nFiles, raw, dDefined, d, statusSummary, lines, exitStatus,
                   scanVars, indentVars>>

\* lines 141-143, d not bound: NameError, the traceback ends the process
NormalizeCRUnbound ==
    /\ pc = "normalize"
    /\ ~(Contains(data, CR) /\ Contains(data, LF))
    /\ Contains(data, CR)
    /\ ~dDefined
    /\ pc' = "NameError"
    /\ exitStatus' = 1
    /\ UNCHANGED <<nFiles, raw, data, dDefined, d, statusSummary, lines,
                   scanVars, indentVars>>

\* lines 144-146
NormalizeLF ==
    /\ pc = "normalize"
    /\ ~Contains(data, CR)
    /\ pc' = "lines"
    /\ UNCHANGED <<nFiles, raw, data, dDefined, d, statusSummary, lines,
                   exitStatus, scanVars, indentVars>>

\* lines 148-226
AnalyseLines ==
    /\ pc = "lines"
    /\ statusSummary' = SetStatus(AnalyseNormalized(status, data))
    /\ data' = ExpandTabs(data)
    /\ lines' = Split(data')
    /\ pc' = "next"
    /\ UNCHANGED <<nFiles, raw, dDefined, d, exitStatus, scanVars, indentVars>>

\* lines 229-241, the walk having ended
Summary ==
    /\ pc = "next"
    /\ exitStatus' =
        IF \E i \in 1..Len(statusSummary) : hasIssues(statusSummary[i]) THEN 1 ELSE 0
    /\ pc' = "done"
    /\ UNCHANGED <<nFiles, raw, data, dDefined, d, statusSummary, lines,
                   scanVars, indentVars>>

Next ==
    \/ ReadFile
    \/ NormalizeCRLF
    \/ AssertionFails
    \/ NormalizeCR
    \/ NormalizeCRUnbound
    \/ NormalizeLF
    \/ AnalyseLines
    \/ Summary

Spec == Init /\ [][Next]_vars

(***************************************************************************)
(* The analysis of one file (lines 121-226), one check a step.  The file   *)
(* is the first one of the walk, so d is not bound.                        *)
(***************************************************************************)
InitFile ==
    /\ pc = "normalize"
    /\ nFiles = 1
    /\ raw \in FileContents
    /\ data = raw
    /\ dDefined = FALSE
    /\ d = <<>>
    /\ statusSummary = <<FileStatus(1)>>
    /\ lines = <<>>
    /\ exitStatus = -1
    /\ RunIdleScan
    /\ RunIdleIndent

\* lines 148-157: the lines of the normalized data, has-tabs counted
CheckTabs ==
    /\ pc = "lines"
    /\ lines' = Split(data)
    /\ statusSummary' = SetStatus(IncrementBy(status, "has-tabs", TabLineCount(lines')))
    /\ pc' = "expandtabs"
    /\ UNCHANGED <<nFiles, raw, data, dDefined, d, exitStatus, scanVars, indentVars>>

\* lines 159-160: tabs expanded, the lines taken again
ExpandAndSplit ==
    /\ pc = "expandtabs"
    /\ data' = ExpandTabs(data)
    /\ lines' = Split(data')
    /\ pc' = "indenting"
    /\ UNCHANGED <<nFiles, raw, dDefined, d, statusSummary, exitStatus,
                   scanVars, indentVars>>

\* lines 163-190
CheckIndenting ==
    /\ pc = "indenting"
    /\ statusSummary' =
        SetStatus(IncrementBy(status, "has-bad-indenting", BadIndentCount(lines)))
    /\ pc' = "trailing"
    /\ UNCHANGED <<nFiles, raw, data, dDefined, d, lines, exitStatus,
                   scanVars, indentVars>>

\* lines 193-203
CheckTrailingWhitespace ==
    /\ pc = "trailing"
    /\ statusSummary' =
        SetStatus(IncrementBy(status, "has-trailing-whitespace",
                              TrailingWhitespaceCount(lines)))
    /\ pc' = "badchars"
    /\ UNCHANGED <<nFiles, raw, data, dDefined, d, lines, exitStatus,
                   scanVars, indentVars>>

\* lines 206-217
CheckBadCharacters ==
    /\ pc = "badchars"
    /\ statusSummary' =
        SetStatus(IncrementBy(status, "has-bad-character", BadCharacterCount(lines)))
    /\ pc' = "eol"
    /\ UNCHANGED <<nFiles, raw, data, dDefined, d, lines, exitStatus,
                   scanVars, indentVars>>

\* lines 220-226
CheckEolAtEof ==
    /\ pc = "eol"
    /\ statusSummary' =
        SetStatus(IncrementBy(status, "has-no-eol-at-eof", NoEolAtEof(data)))
    /\ pc' = "analysed"
    /\ UNCHANGED <<nFiles, raw, data, dDefined, d, lines, exitStatus,
                   scanVars, indentVars>>

NextFile ==
    \/ NormalizeCRLF
    \/ AssertionFails
    \/ NormalizeCRUnbound
    \/ NormalizeLF
    \/ CheckTabs
    \/ ExpandAndSplit
    \/ CheckIndenting
    \/ CheckTrailingWhitespace
    \/ CheckBadCharacters
    \/ CheckEolAtEof

SpecFile == InitFile /\ [][NextFile]_vars

(***************************************************************************)
(* multilineCommentIsOpenAtEol, one loop iteration a step                  *)
(***************************************************************************)
InitComment ==
    /\ pc = "scan_loop"
    /\ lineText \in ScanLines
    /\ wasOpenAtStartOfLine \in BOOLEAN
    /\ isOpen = wasOpenAtStartOfLine
    /\ index = 0
    /\ iterations = 0
    /\ nFiles = 0 /\ raw = <<>> /\ data = <<>> /\ dDefined = FALSE /\ d = <<>>
    /\ statusSummary = <<>> /\ lines = <<>> /\ exitStatus = -1
    /\ RunIdleIndent

\* lines 48-58: the loop condition holds, the body runs once
ScanIteration ==
    /\ pc = "scan_loop"
    /\ ScanContinues(lineText, index)
    /\ isOpen' = ScanStep(lineText, isOpen, index).isOpen
    /\ index' = ScanStep(lineText, isOpen, index).index
    /\ iterations' = iterations + 1
    /\ UNCHANGED <<pc, lineText, wasOpenAtStartOfLine, runVars, indentVars>>

\* lines 48 and 59: the loop condition fails, isOpen is returned
ScanReturn ==
    /\ pc = "scan_loop"
    /\ ~ScanContinues(lineText, index)
    /\ pc' = "scan_return"
    /\ UNCHANGED <<scanVars, runVars, indentVars>>

NextComment == ScanIteration \/ ScanReturn

SpecComment == InitComment /\ [][NextComment]_vars

\* the function runs to its return: nothing suspends the loop
SpecCommentFair == SpecComment /\ WF_vars(NextComment)

(***************************************************************************)
(* The bad-indenting loop (lines 163-190), one line in two steps: the      *)
(* check of lines 169-186, then the updates of lines 172-173 or 187-188    *)
(* and 189-190.  The lines are those of any tab-expanded file.             *)
(***************************************************************************)
InitIndent ==
    /\ pc = "indent_for"
    /\ line = <<>>
    /\ commentIsOpen = FALSE
    /\ previousLine = <<>>
    /\ previousIndent = 0
    /\ lineNo = 1
    /\ badIndenting = 0
    /\ printedBadIndent = FALSE
    /\ nFiles = 0 /\ raw = <<>> /\ data = <<>> /\ dDefined = FALSE /\ d = <<>>
    /\ statusSummary = <<>> /\ lines = <<>> /\ exitStatus = -1
    /\ RunIdleScan

\* lines 169-186: the next line; has-bad-indenting incremented and the
\* error printed when the line is badly indented
IndentCheck ==
    /\ pc = "indent_for"
    /\ lineNo <= MaxLines
    /\ \E text \in IndentLines :
        /\ line' = text
        /\ printedBadIndent' = IndentRaises(commentIsOpen, previousLine, previousIndent, text)
    /\ badIndenting' = badIndenting + (IF printedBadIndent' THEN 1 ELSE 0)
    /\ pc' = "indent_update"
    /\ UNCHANGED <<commentIsOpen, previousLine, previousIndent, lineNo, runVars, scanVars>>

\* lines 172-173 or 187-188, then 189-190
IndentUpdate ==
    /\ pc = "indent_update"
    /\ commentIsOpen' = multilineCommentIsOpenAtEol(line, commentIsOpen)
    /\ previousIndent' = IndentAfter(commentIsOpen, line)
    /\ previousLine' = line
    /\ lineNo' = lineNo + 1
    /\ pc' = "indent_for"
    /\ UNCHANGED <<line, badIndenting, printedBadIndent, runVars, scanVars>>

\* the lines are exhausted
IndentEnd ==
    /\ pc = "indent_for"
    /\ pc' = "indent_done"
    /\ UNCHANGED <<indentVars, runVars, scanVars>>

NextIndent == IndentCheck \/ IndentUpdate \/ IndentEnd

SpecIndent == InitIndent /\ [][NextIndent]_vars

(***************************************************************************)
(* Properties of the whole run (Spec)                                      *)
(***************************************************************************)
InconsistentLineEndings == status.issueCounts["has-inconsistent-line-endings"]

\* The analysis of content as the first file of a run, no earlier file
\* having bound d: whether it ends in an exception, the normalized buffer,
\* and the FileStatus.
FirstFileRaises(content) ==
    /\ Contains(content, CR)
    /\ Contains(content, LF) => ~SentinelAbsent(content)

FirstFileNormalized(content) ==
    IF Contains(content, CR) /\ Contains(content, LF)
    THEN RestoreSentinel(SubstituteSentinel(content))
    ELSE content

FirstFileStatus(path, content) ==
    AnalyseNormalized(
        IncrementBy(FileStatus(path), "has-inconsistent-line-endings",
                    IF Contains(content, CR) /\ Contains(content, LF)
                    THEN StrayCount(SubstituteSentinel(content)) ELSE 0),
        FirstFileNormalized(content))

\* C1: the IssueRecord and the normalized lines of a file are a function of
\* its own bytes: whatever files were analysed before it, a file that has
\* been analysed has the six counts and the lines that the same bytes get
\* as the first file of a run (where no d of an earlier file exists).
C1_OwnBytesOnly ==
    (pc = "next" /\ nFiles >= 1) =>
        /\ ~FirstFileRaises(raw)
        /\ status.issueCounts = FirstFileStatus(nFiles, raw).issueCounts
        /\ lines = Split(ExpandTabs(FirstFileNormalized(raw)))

\* C2: no file content raises an exception, and the run reaches the summary
\* with exactly one IssueRecord per file.
C2_NoException ==
    /\ pc \notin {"NameError", "AssertionError"}
    /\ pc = "done" => (exitStatus \in {0, 1} /\ Len(statusSummary) = nFiles)

CRtoLF(buf) == [i \in 1..Len(buf) |-> IF buf[i] = CR THEN LF ELSE buf[i]]

\* C3: a buffer with a carriage return and no line feed is normalized to
\* itself with every CR rewritten to LF, and raises no inconsistency flag.
C3_CROnly ==
    (pc \notin {"next", "normalize", "done"}
        /\ Contains(raw, CR) /\ ~Contains(raw, LF)) =>
        /\ pc = "lines"
        /\ data = CRtoLF(raw)
        /\ InconsistentLineEndings = 0

\* C4: the normalized buffer holds no carriage return, and so no line
\* split from it does.
C4_LineFeedOnly ==
    pc = "lines" =>
        /\ ~Contains(data, CR)
        /\ \A i \in 1..Len(Split(data)) : ~Contains(Split(data)[i], CR)

\* a CR not immediately followed by LF
HasStrayCR(buf) ==
    \E i \in 1..Len(buf) : buf[i] = CR /\ (i = Len(buf) \/ buf[i + 1] # LF)

\* a LF not immediately preceded by CR
HasStrayLF(buf) ==
    \E i \in 1..Len(buf) : buf[i] = LF /\ (i = 1 \/ buf[i - 1] # CR)

\* C5: for a buffer without the sentinel, the inconsistent-line-endings
\* count is [a stray CR exists] + [a stray LF exists] when the buffer holds
\* both CR and LF, and 0 with the buffer unchanged when it holds no CR; it
\* never exceeds 2.
C5_StrayFlags ==
    (pc \in {"lines", "next", "done"} /\ nFiles >= 1 /\ ~Contains(raw, FF)) =>
        /\ (Contains(raw, CR) /\ Contains(raw, LF)) =>
               InconsistentLineEndings =
                   (IF HasStrayCR(raw) THEN 1 ELSE 0) + (IF HasStrayLF(raw) THEN 1 ELSE 0)
        /\ ~Contains(raw, CR) =>
               (InconsistentLineEndings = 0 /\ (pc = "lines" => data = raw))
        /\ InconsistentLineEndings <= 2

\* a buffer with several stray CRs and a stray LF has been normalized and
\* counts 2
C5_Witness ==
    /\ pc = "lines"
    /\ ~Contains(raw, FF)
    /\ Cardinality({i \in 1..Len(raw) : raw[i] = LF}) >= 2
    /\ HasStrayCR(raw) /\ HasStrayLF(raw)
    /\ InconsistentLineEndings = 2

\* C6: on a buffer holding CR, LF and the sentinel the next step is the
\* assertion failure, which replaces nothing (data and d are as they were)
\* and increments no count of the file.
C6_SentinelAsserted ==
    [][(pc = "normalize" /\ Contains(data, CR) /\ Contains(data, LF)
            /\ Contains(data, FF)) =>
        /\ pc' = "AssertionError"
        /\ data' = data /\ d' = d /\ dDefined' = dDefined
        /\ statusSummary' = statusSummary
        /\ \A n \in issueNames : status.issueCounts[n] = 0]_vars

\* the assertion has failed on the second file, d holding the first file's
\* substitution
C6_Witness ==
    /\ pc = "AssertionError"
    /\ nFiles = 2 /\ dDefined
    /\ Contains(data, CR) /\ Contains(data, LF) /\ Contains(data, FF)
    /\ Len(statusSummary) = 2

(***************************************************************************)
(* Properties of multilineCommentIsOpenAtEol (SpecComment)                 *)
(***************************************************************************)
\* the 0-based indices at which delim occurs in text
Occurrences(text, delim) == {i \in 0..(Len(text) - 2) : MatchAt(text, delim, i)}

Opens(text) == Occurrences(text, <<SLASH, STAR>>)
Closes(text) == Occurrences(text, <<STAR, SLASH>>)

Balanced(text) == Cardinality(Opens(text)) = Cardinality(Closes(text))

\* no byte of text belongs to two delimiters (as the "/" of "*/*" does), so
\* that the number of delimiters does not depend on how overlapping ones
\* are counted
NoSharedByte(text) ==
    \A p, q \in Opens(text) \cup Closes(text) : p # q => (p - q >= 2 \/ q - p >= 2)

\* C7 as stated: on a line with as many "/*" as "*/" the state returned is
\* the state passed, for both entry states.  (Stated of the lines whose
\* delimiters share no byte: it fails there already.)
C7_BalancedKeepsState ==
    (pc = "scan_return" /\ Balanced(lineText) /\ NoSharedByte(lineText)) =>
        isOpen = wasOpenAtStartOfLine

\* the delimiters of text alternate from left to right, the first being the
\* one sought at entry: "/*" outside a comment, "*/" in one
AlternatesFrom(text, wasOpen) ==
    LET all == Opens(text) \cup Closes(text)
        rank(p) == Cardinality({q \in all : q < p})
        first == IF wasOpen THEN Closes(text) ELSE Opens(text)
    IN  \A p \in all : (p \in first) <=> (rank(p) % 2 = 0)

\* C7 amended: on a balanced line whose delimiters share no byte and
\* alternate starting with the one the entry state looks for, the state
\* returned is the state passed.
C7_PairedKeepsState ==
    (pc = "scan_return" /\ Balanced(lineText) /\ NoSharedByte(lineText)
        /\ AlternatesFrom(lineText, wasOpenAtStartOfLine)) =>
        isOpen = wasOpenAtStartOfLine

\* the scan has returned from a line entered in a comment that closes it
\* and opens another
C7_Witness ==
    /\ pc = "scan_return"
    /\ wasOpenAtStartOfLine
    /\ Opens(lineText) # {}
    /\ Balanced(lineText) /\ NoSharedByte(lineText)
    /\ AlternatesFrom(lineText, wasOpenAtStartOfLine)
    /\ isOpen

(***************************************************************************)
(* Properties of the bad-indenting loop (SpecIndent).  In a state with     *)
(* pc = "indent_update" the variable line is the line just checked,        *)
(* printedBadIndent tells whether it raised bad-indenting, and             *)
(* commentIsOpen, previousLine and previousIndent are still those the      *)
(* check read: previousLine is the immediately preceding line.             *)
(***************************************************************************)
\* C8 as stated: a line as wide in leading whitespace as the line before it
\* never raises bad-indenting.
C8_SameIndentNeverRaises ==
    (pc = "indent_update" /\ lineNo > 1
        /\ LeadingWhitespace(line) = LeadingWhitespace(previousLine)) =>
        ~printedBadIndent

\* C8 amended: a line as wide in leading whitespace as the line before it
\* never raises bad-indenting when the line before it started outside a
\* block comment, whitespace-only or not.  (previousIndent is the width of
\* the preceding line exactly when that line started outside a comment or
\* has width 0; a line that started in a comment leaves previousIndent 0.)
C8_SameIndentOutsideComment ==
    (pc = "indent_update" /\ lineNo > 1
        /\ previousIndent = LeadingWhitespace(previousLine)
        /\ LeadingWhitespace(line) = LeadingWhitespace(previousLine)) =>
        ~printedBadIndent

\* a line with an indent that is no multiple of 4, with no heuristic
\* excusing it, has been checked after a line of the same width and has
\* not raised
C8_Witness ==
    /\ pc = "indent_update" /\ lineNo > 1
    /\ ~commentIsOpen
    /\ previousIndent = LeadingWhitespace(previousLine)
    /\ LeadingWhitespace(line) = LeadingWhitespace(previousLine)
    /\ LeadingWhitespace(line) % 4 # 0
    /\ LeadingWhitespace(line) # Len(line)
    /\ ~allowStrangeIndentOnFollowingLine(previousLine)
    /\ ~allowStrangeIndentOfLine(line)
    /\ ~printedBadIndent

\* the conditions C9 lists for a line to raise bad-indenting
C9_Raises(open, prevLine, prevIndent, text) ==
    LET indent == LeadingWhitespace(text)
    IN  /\ open = FALSE
        /\ indent # Len(text)
        /\ indent % 4 # 0
        /\ indent # prevIndent
        /\ allowStrangeIndentOnFollowingLine(prevLine) = FALSE
        /\ allowStrangeIndentOfLine(text) = FALSE

\* C9: the count starts at 0 and every step of the loop adds 1 to it when
\* the step checks a line for which all the listed conditions hold, and
\* nothing otherwise; so the count is the number of such lines.
C9_CountsListedLines ==
    [][badIndenting' = badIndenting +
        (IF pc = "indent_for" /\ pc' = "indent_update"
                /\ C9_Raises(commentIsOpen, previousLine, previousIndent, line')
         THEN 1 ELSE 0)]_vars

\* "if (x)\n  return;\n": line 2 has been checked and is the one line that
\* raised
C9_Witness ==
    /\ pc = "indent_update" /\ lineNo = 2
    /\ previousLine = <<105, 102, SP, 40, 120, 41>>
    /\ line = <<SP, SP, 114, 101, 116, 117, 114, 110, 59>>
    /\ printedBadIndent
    /\ badIndenting = 1

\* text without its trailing spaces
WithoutTrailingSpaces(text) ==
    LET keep == {i \in 1..Len(text) : text[i] # SP}
    IN  IF keep = {} THEN <<>>
        ELSE SubSeq(text, 1, CHOOSE i \in keep : \A j \in keep : i >= j)

EndsWith(text, suffix) ==
    Len(text) >= Len(suffix)
        /\ SubSeq(text, Len(text) - Len(suffix) + 1, Len(text)) = suffix

\* text without its trailing spaces and without one trailing block comment:
\* when what is left ends with "*/" and holds a "/*", the text from the
\* last "/*" on and the spaces before it go
WithoutTrailingComment(text) ==
    LET t == WithoutTrailingSpaces(text)
    IN  IF EndsWith(t, <<STAR, SLASH>>) /\ Opens(t) # {}
        THEN WithoutTrailingSpaces(
                 SubSeq(t, 1, CHOOSE i \in Opens(t) : \A j \in Opens(t) : i >= j))
        ELSE t

\* ( , \ + - / * = & | ? : "
ContinuationEnd == {40, 44, 92, 43, 45, 47, 42, 61, 38, 124, 63, 58, 34}

\* + - / * = & | ? : ) "
ContinuationStart == {43, 45, 47, 42, 61, 38, 124, 63, 58, 41, 34}

EndsWithContinuation(text) ==
    LET t == WithoutTrailingComment(text)
    IN  t # <<>> /\ t[Len(t)] \in ContinuationEnd

StartsWithContinuation(text) ==
    \E i \in 1..Len(text) :
        /\ text[i] # SP
        /\ \A j \in 1..(i - 1) : text[j] = SP
        /\ text[i] \in ContinuationStart

AllSpaces(text) == \A i \in 1..Len(text) : text[i] = SP

Count(issueName) == status.issueCounts[issueName]

\* C11: when the analysis of a file is complete, its has-no-eol-at-eof count
\* is 1 if the tab-expanded, normalized buffer is non-empty and its last
\* byte is not LF, and 0 otherwise (the empty file included); never more.
C11_NoEolAtEofCount ==
    pc = "analysed" =>
        /\ Count("has-no-eol-at-eof") \in {0, 1}
        /\ Count("has-no-eol-at-eof") = 1 <=> (data # <<>> /\ data[Len(data)] # LF)
        /\ data = <<>> => Count("has-no-eol-at-eof") = 0
        /\ lines = Split(data)
        /\ Count("has-no-eol-at-eof") = 1 <=> lines[Len(lines)] # <<>>

\* a file of two lines, the second without its LF, and the empty file are
\* both analysed: "~\n~" has raised the issue once
C11_Witness ==
    /\ pc = "analysed"
    /\ raw = <<126, LF, 126>>
    /\ Count("has-no-eol-at-eof") = 1

\* the bytes the bad-character check accepts: tab, CR, LF and 0x20..0x7E
AcceptedBytes == {9, 13, 10} \cup (32..126)

\* C12: when the analysis of a file is complete, its has-bad-character
\* count is the number of lines with at least one byte outside tab, CR, LF
\* and 0x20..0x7E: a line counts once, however many such bytes it has.
C12_BadCharacterCount ==
    pc = "analysed" =>
        Count("has-bad-character") =
            Cardinality({i \in 1..Len(lines) :
                            \E k \in 1..Len(lines[i]) : lines[i][k] \notin AcceptedBytes})

\* "\x01x\x1f\n\x80\xff\n\n": the first line has two separated bad bytes, the
\* second two adjacent ones, and the count is 2
C12_Witness ==
    /\ pc = "analysed"
    /\ raw = <<1, 120, 31, LF, 128, 255, LF, LF>>
    /\ Len(lines) = 4
    /\ Count("has-bad-character") = 2

\* the lines of the file whose last byte is one of the given bytes
LinesEndingIn(bytes) ==
    {i \in 1..Len(lines) : lines[i] # <<>> /\ lines[i][Len(lines[i])] \in bytes}

\* C13 as stated: a line raises trailing-whitespace exactly when its last
\* byte is a space, a tab or a CR; a line ending in another byte, form-feed
\* and vertical-tab included, and the empty line do not raise it.
C13_SpaceTabCROnly ==
    pc = "analysed" =>
        Count("has-trailing-whitespace") = Cardinality(LinesEndingIn({32, 9, 13}))

\* C13: a line raises trailing-whitespace exactly when its last byte is a
\* space, a tab, a CR, a form-feed or a vertical-tab; a line ending in
\* another byte and the empty line do not raise it; a line counts once.
C13_TrailingWhitespaceCount ==
    pc = "analysed" =>
        Count("has-trailing-whitespace") =
            Cardinality(LinesEndingIn({32, 9, 13, 12, 11}))

\* "~\f\n\v": the first line ends in a form-feed, the second is a lone
\* vertical-tab; the count is 2
C13_Witness ==
    /\ pc = "analysed"
    /\ raw = <<126, FF, LF, VT>>
    /\ Count("has-trailing-whitespace") = 2

\* C14: has-tabs is counted on the lines before tab expansion, once for
\* each line that contains a tab; the expansion leaves no tab in any line
\* and keeps the number of lines; no later check changes the count.
C14_TabsCountedThenExpanded ==
    [][/\ pc = "lines" =>
            status'.issueCounts["has-tabs"] =
                Count("has-tabs")
                    + Cardinality({i \in 1..Len(lines') : Contains(lines'[i], 9)})
       /\ pc = "expandtabs" =>
            /\ Len(lines') = Len(lines)
            /\ \A i \in 1..Len(lines') : ~Contains(lines'[i], 9)
            /\ ~Contains(data', 9)
       /\ pc # "lines" => status'.issueCounts["has-tabs"] = Count("has-tabs")]_vars

\* "\t\tx\t\nx\n\t" after the expansion: three lines before and after, two
\* of them had tabs (three in the first), has-tabs is 2, and no tab is left
C14_Witness ==
    /\ pc = "indenting"
    /\ raw = <<TAB, TAB, 120, TAB, LF, 120, LF, TAB>>
    /\ Count("has-tabs") = 2
    /\ Len(lines) = 3
    /\ Len(lines[1]) = 13
    /\ ~Contains(data, TAB)

(***************************************************************************)
(* The summary (Spec)                                                      *)
(***************************************************************************)
CleanRecord(i) ==
    \A n \in DOMAIN statusSummary[i].issueCounts : statusSummary[i].issueCounts[n] = 0

\* C15: once every file is analysed and the summary is printed, the exit
\* status is 0 exactly when all six counts of every record are zero, and 1
\* when any count of any record is not.
C15_ExitStatus ==
    pc = "done" =>
        /\ exitStatus \in {0, 1}
        /\ exitStatus = 0 <=> \A i \in 1..Len(statusSummary) : CleanRecord(i)
        /\ Len(statusSummary) = nFiles
        /\ \A i \in 1..Len(statusSummary) : DOMAIN statusSummary[i].issueCounts = issueNames

\* two files, the first clean, the second with one non-zero count and the
\* other five zero: the run fails
C15_Witness ==
    /\ pc = "done"
    /\ nFiles = 2
    /\ CleanRecord(1)
    /\ Cardinality({n \in issueNames : statusSummary[2].issueCounts[n] # 0}) = 1
    /\ exitStatus = 1

(***************************************************************************)
(* Further properties of multilineCommentIsOpenAtEol (SpecComment)         *)
(***************************************************************************)
\* the reference scan: byte by byte from position i, toggling the state at
\* each delimiter of the kind looked for and resuming after its two bytes
RECURSIVE ReferenceScan(_, _, _)
ReferenceScan(text, open, i) ==
    IF i + 1 > Len(text) THEN open
    ELSE IF (open /\ text[i] = 42 /\ text[i + 1] = 47)
             \/ (~open /\ text[i] = 47 /\ text[i + 1] = 42)
         THEN ReferenceScan(text, ~open, i + 2)
         ELSE ReferenceScan(text, open, i + 1)

\* C16: for every line and entry state the function returns what the
\* reference scan returns; "/*/" entered outside a comment exits inside,
\* "*/*" entered inside exits outside, "/* a */ b /* c" entered outside
\* exits inside.
C16_EqualsReferenceScan ==
    pc = "scan_return" =>
        /\ isOpen = ReferenceScan(lineText, wasOpenAtStartOfLine, 1)
        /\ isOpen = multilineCommentIsOpenAtEol(lineText, wasOpenAtStartOfLine)
        /\ (lineText = <<47, 42, 47>> /\ ~wasOpenAtStartOfLine) => isOpen
        /\ (lineText = <<42, 47, 42>> /\ wasOpenAtStartOfLine) => ~isOpen
        /\ (lineText = <<47, 42, 32, 97, 32, 42, 47, 32, 98, 32, 47, 42, 32, 99>>
                /\ ~wasOpenAtStartOfLine) => isOpen

\* "/* a */ b /* c" entered outside a comment has been scanned in four
\* iterations and the function returns inside
C16_Witness ==
    /\ pc = "scan_return"
    /\ lineText = <<47, 42, 32, 97, 32, 42, 47, 32, 98, 32, 47, 42, 32, 99>>
    /\ ~wasOpenAtStartOfLine
    /\ iterations = 4
    /\ isOpen

\* C18: the function terminates for every line and entry state: each
\* iteration sets the scan index to -1 or raises it by at least 2, the loop
\* body runs at most len(line)/2 + 1 times, and the index never exceeds
\* len(line).
C18_ScanTerminates ==
    /\ [][(pc = "scan_loop" /\ pc' = "scan_loop") =>
            /\ iterations' = iterations + 1
            /\ index' = -1 \/ index' >= index + 2]_vars
    /\ [](/\ index <= Len(lineText)
          /\ iterations <= (Len(lineText) \div 2) + 1)
    /\ <>(pc = "scan_return")

\* "/*x" entered outside a comment: the delimiter is found, the second
\* search fails, and the function returns after 3/2 + 1 = 2 iterations
C18_Witness ==
    /\ pc = "scan_return"
    /\ lineText = <<47, 42, 120>>
    /\ ~wasOpenAtStartOfLine
    /\ index = -1
    /\ iterations = (Len(lineText) \div 2) + 1

(***************************************************************************)
(* Further properties of the bad-indenting loop (SpecIndent)               *)
(***************************************************************************)
\* C17: a line at whose start a multi-line comment is open does not raise
\* bad-indenting; after it previousIndent is 0 and previousLine is that
\* line, so the line after it is judged against the baseline 0.
C17_CommentLineResetsBaseline ==
    [][/\ (pc = "indent_for" /\ pc' = "indent_update" /\ commentIsOpen) =>
            /\ ~printedBadIndent'
            /\ badIndenting' = badIndenting
       /\ (pc = "indent_update" /\ commentIsOpen) =>
            /\ previousIndent' = 0
            /\ previousLine' = line
            /\ badIndenting' = badIndenting]_vars

\* after "/*x" and " */x", whose width 1 was replaced by the baseline 0,
\* the line " x" of the same width 1 has raised bad-indenting
C17_Witness ==
    /\ pc = "indent_update"
    /\ previousLine = <<SP, STAR, SLASH, 120>>
    /\ previousIndent = 0
    /\ ~commentIsOpen
    /\ line = <<SP, 120>>
    /\ printedBadIndent
    /\ badIndenting = 1

WhitespaceOnly(text) == \A i \in 1..Len(text) : text[i] \in {32, 9, 10, 13, 12, 11}

\* C19: a whitespace-only or empty line outside a comment does not raise
\* bad-indenting, but it sets the baseline: after it previousIndent is the
\* line's length and previousLine is the line.
C19_BlankLineSetsBaseline ==
    [][/\ (pc = "indent_for" /\ pc' = "indent_update" /\ ~commentIsOpen
              /\ WhitespaceOnly(line')) =>
            /\ ~printedBadIndent'
            /\ badIndenting' = badIndenting
       /\ (pc = "indent_update" /\ ~commentIsOpen /\ WhitespaceOnly(line)) =>
            /\ previousIndent' = Len(line)
            /\ previousLine' = line
            /\ badIndenting' = badIndenting]_vars

\* after the line " " the line " x", whose indent 1 is no multiple of 4 and
\* differs from the indent 0 of the line before the blank one, has not
\* raised: it is judged against the blank line's width
C19_Witness ==
    /\ pc = "indent_update"
    /\ lineNo = 3
    /\ previousLine = <<SP>>
    /\ previousIndent = 1
    /\ ~commentIsOpen
    /\ line = <<SP, 120>>
    /\ ~printedBadIndent
    /\ IndentRaises(FALSE, previousLine, 0, line)

\* a C comment occupies the 0-based positions i..j-1 of t: it opens with "/*"
\* at i and ends with the first "*/" after the opening
CommentSpan(t, i, j) ==
    /\ MatchAt(t, <<47, 42>>, i)
    /\ j >= i + 4
    /\ MatchAt(t, <<42, 47>>, j - 2)
    /\ \A k \in (i + 2)..(j - 3) : ~MatchAt(t, <<42, 47>>, k)

\* the closing line of a multi-line comment: ends in "*/", holds no "/*"
ClosingLine(text) ==
    /\ EndsWith(WithoutTrailingSpaces(text), <<42, 47>>)
    /\ \A k \in 0..Len(text) : ~MatchAt(text, <<47, 42>>, k)

\* the 0-based positions m at which the last of two consecutive comments
\* that end the line starts
SecondCommentStarts(text) ==
    LET t == WithoutTrailingSpaces(text)
    IN  {m \in 0..Len(t) :
            /\ CommentSpan(t, m, Len(t))
            /\ \E i \in 0..m, e \in 0..m :
                /\ CommentSpan(t, i, e)
                /\ \A k \in (e + 1)..m : t[k] = 32}

EndsInTwoComments(text) == SecondCommentStarts(text) # {}

\* ... and the last comment holds no "/*" after its opening
EndsInTwoPlainComments(text) ==
    \E m \in SecondCommentStarts(text) :
        \A k \in (m + 1)..Len(text) : ~MatchAt(text, <<47, 42>>, k)

\* C20 as stated: after a closing line of a multi-line comment, and after
\* every line ending in two consecutive inline comments, the function is
\* true and the following line does not raise bad-indenting.
C20_TwoCommentsAlwaysAllow ==
    (pc = "indent_update"
        /\ (ClosingLine(previousLine) \/ EndsInTwoComments(previousLine))) =>
            /\ allowStrangeIndentOnFollowingLine(previousLine)
            /\ ~printedBadIndent

\* C20: the function strips one trailing comment, from the last "/*" of the
\* line: after a closing line of a multi-line comment, and after a line
\* ending in two consecutive inline comments the last of which holds no
\* further "/*", it is true and the following line does not raise.
C20_OneCommentStripped ==
    (pc = "indent_update"
        /\ (ClosingLine(previousLine) \/ EndsInTwoPlainComments(previousLine))) =>
            /\ allowStrangeIndentOnFollowingLine(previousLine)
            /\ ~printedBadIndent

\* "x /*a*/ /*b*/" followed by "  return;", whose indent 2 would otherwise
\* raise, has not raised
C20_Witness ==
    /\ pc = "indent_update"
    /\ previousLine =
        <<120, SP, SLASH, STAR, 97, STAR, SLASH, SP, SLASH, STAR, 98, STAR, SLASH>>
    /\ EndsInTwoPlainComments(previousLine)
    /\ previousIndent = 0
    /\ ~commentIsOpen
    /\ line = <<SP, SP, 114, 101, 116, 117, 114, 110, 59>>
    /\ ~printedBadIndent

====
